---- MODULE Spec2Model ----
(***************************************************************************)
(* The users / chats / messages REST API of src/src/index.ts over the      *)
(* relational store declared by the entities (User, Chat, Message).        *)
(*                                                                         *)
(* A handler that issues one store statement is one action.  The create    *)
(* handlers that first look the parent up and then save (two awaits) are   *)
(* two actions, so that any other request can run between the lookup and   *)
(* the save.  `last` is the request that responded last with its response, *)
(* kept for the routes in `observed` (the routes a property reads) and     *)
(* blank after a response of any other route.                              *)
(***************************************************************************)
EXTENDS Integers, Sequences, FiniteSets, TLC

VARIABLES users, chats, messages, userSeq, chatSeq, msgSeq, pending, last,
          observed

vars ==
  <<users, chats, messages, userSeq, chatSeq, msgSeq, pending, last, observed>>

\* Bound of the model: how many ids the three id sequences hand out in all.
MaxRows == 4

\* Clients that may have a request in flight at the same time.
Clients == {"c1"}

\* The ids a request may name: every id handed out so far, and one that has
\* not been handed out (all such ids behave alike).
UserIds == 1..(userSeq + 1)
ChatIds == 1..(chatSeq + 1)
MsgIds == 1..(msgSeq + 1)

(***************************************************************************)
(* JSON values of a request body.                                          *)
(***************************************************************************)
JUndef == [t |-> "undefined", s |-> "", n |-> 0]
JStr(x) == [t |-> "string", s |-> x, n |-> 0]
JNum(x) == [t |-> "number", s |-> "", n |-> x]

\* The decimal texts the model draws from, with the integer each denotes.
IntTexts == {"-1", "0", "1", "2", "3"}
IntOfText(x) ==
  CASE x = "-1" -> 0 - 1
    [] x = "0" -> 0
    [] x = "1" -> 1
    [] x = "2" -> 2
    [] x = "3" -> 3
    [] OTHER -> 0

\* express-validator: isString() is typeof value === 'string'.
isString(v) == v.t = "string"

\* express-validator: notEmpty() fails on a value whose text is empty; the
\* text of undefined is "", the text of a number is its digits.
notEmpty(v) ==
  CASE v.t = "undefined" -> FALSE
    [] v.t = "string" -> v.s # ""
    [] OTHER -> TRUE

\* express-validator: isInt() accepts an integer or a text that is a decimal
\* integer.
isInt(v) ==
  CASE v.t = "number" -> TRUE
    [] v.t = "string" -> v.s \in IntTexts
    [] OTHER -> FALSE

\* The integer an isInt value denotes (the store coerces a decimal text).
IntValue(v) == IF v.t = "number" THEN v.n ELSE IntOfText(v.s)

\* isInt({ min: 0 })
isIntMin0(v) == isInt(v) /\ IntValue(v) >= 0

Check(ok, path, rule) == IF ok THEN <<>> ELSE <<[path |-> path, rule |-> rule]>>

Body(fn, ln, ag, uid, ti, qu, an) ==
  [firstName |-> fn, lastName |-> ln, age |-> ag, userId |-> uid,
   title |-> ti, question |-> qu, answer |-> an]

NoBody == Body(JUndef, JUndef, JUndef, JUndef, JUndef, JUndef, JUndef)

\* Faulty variant of ValidateUser: the age rule is missing.
ValidateUserDropsAge(b) ==
  Check(isString(b.firstName), "firstName", "isString")
    \o Check(notEmpty(b.firstName), "firstName", "notEmpty")
    \o Check(isString(b.lastName), "lastName", "isString")
    \o Check(notEmpty(b.lastName), "lastName", "notEmpty")

\* validationResult(req).array() of POST /users
ValidateUser(b) ==
  Check(isString(b.firstName), "firstName", "isString")
    \o Check(notEmpty(b.firstName), "firstName", "notEmpty")
    \o Check(isString(b.lastName), "lastName", "isString")
    \o Check(notEmpty(b.lastName), "lastName", "notEmpty")
    \o Check(isIntMin0(b.age), "age", "isInt")

\* validationResult(req).array() of POST /chats
ValidateChat(b) ==
  Check(isInt(b.userId), "userId", "isInt")
    \o Check(notEmpty(b.userId), "userId", "notEmpty")
    \o Check(isString(b.title), "title", "isString")
    \o Check(notEmpty(b.title), "title", "notEmpty")

\* validationResult(req).array() of POST /users/:userId/chats
ValidateUserChat(b) ==
  Check(isString(b.title), "title", "isString")
    \o Check(notEmpty(b.title), "title", "notEmpty")

\* validationResult(req).array() of the two message POST routes
ValidateMessage(b) ==
  Check(isString(b.question), "question", "isString")
    \o Check(notEmpty(b.question), "question", "notEmpty")
    \o Check(isString(b.answer), "answer", "isString")
    \o Check(notEmpty(b.answer), "answer", "notEmpty")

(***************************************************************************)
(* Request bodies the model draws from.                                    *)
(***************************************************************************)
UserBodies ==
  { Body(JStr("Ann"), JStr("Lee"), ag, JUndef, JUndef, JUndef, JUndef) :
      ag \in {JNum(0), JNum(0 - 1), JStr("3")} }
  \cup
  { Body(fn, JStr("Lee"), JNum(30), JUndef, JUndef, JUndef, JUndef) :
      fn \in {JUndef, JStr("")} }
  \cup
  { Body(JStr("Ann"), JNum(7), JNum(30), JUndef, JUndef, JUndef, JUndef) }

Titles == {JStr("t"), JStr(""), JUndef}

ChatBodies ==
  { Body(JUndef, JUndef, JUndef, uid, JStr("t"), JUndef, JUndef) :
      uid \in {JNum(u) : u \in UserIds} \cup {JStr("1"), JStr("x")} }
  \cup
  { Body(JUndef, JUndef, JUndef, JNum(1), JUndef, JUndef, JUndef) }

UserChatBodies ==
  { Body(JUndef, JUndef, JUndef, JUndef, ti, JUndef, JUndef) : ti \in Titles }

MessageBodies ==
  { Body(JUndef, JUndef, JUndef, JUndef, JUndef, JStr("q"), an) :
      an \in {JStr("a"), JStr("")} }
  \cup
  { Body(JUndef, JUndef, JUndef, JUndef, JUndef, JUndef, JStr("a")) }

(***************************************************************************)
(* The store: three tables in insertion order and their id sequences.      *)
(*   user    [id, firstName, lastName, age]                                *)
(*   chat    [id, title, user]      user: the foreign key chat -> user     *)
(*   message [id, question, answer, chat]   chat: foreign key -> chat      *)
(* Chat.created_at (new Date()) is not modelled: no handler reads it.      *)
(***************************************************************************)
Ids(table) == {table[i].id : i \in 1..Len(table)}

Rows(table) == {table[i] : i \in 1..Len(table)}

\* Repository.delete: the rows that stay.
Without(table, gone) == SelectSeq(table, LAMBDA r : r.id \notin gone)

\* @ManyToOne(() => User) on Chat.user: the store refuses a chat row whose
\* user is not a stored user, and refuses to delete a user a chat refers to.
\* Faulty variants: a store that does not enforce the foreign key.
ChatUserFKOff(userId) == TRUE

ChatUserFK(userId) == userId \in Ids(users)

UserReferencedOff(userId) == FALSE

UserReferenced(userId) == \E i \in 1..Len(chats) : chats[i].user = userId

\* @ManyToOne(() => Chat) on Message.chat: the same for message -> chat.
MessageChatFK(chatId) == chatId \in Ids(chats)

ChatReferenced(chatId) == \E i \in 1..Len(messages) : messages[i].chat = chatId

\* findOneBy({ id }) on users: no row or one.
FindUserById(id) == SelectSeq(users, LAMBDA r : r.id = id)

\* findOneBy({ id }) / findOne({ where: { id } }) on chats.
FindChatById(id) == SelectSeq(chats, LAMBDA r : r.id = id)

\* findOne({ where: { id: chatId, user: { id: userId } } }) on chats.
FindChatOfUser(chatTable, chatId, userId) ==
  SelectSeq(chatTable, LAMBDA r : r.id = chatId /\ r.user = userId)

\* find({ where: { user: { id: userId } } }) on chats.
ChatsOfUser(userId) == SelectSeq(chats, LAMBDA r : r.user = userId)

\* find({ where: { chat: { id: chatId } } }) on messages, and the
\* relations: ["messages"] of a chat.
MessagesOfChat(msgTable, chatId) ==
  SelectSeq(msgTable, LAMBDA r : r.chat = chatId)

\* Repository.delete({ id, chat: { id, user: { id } } }) on messages: for a
\* many-to-one relation whose criteria carry the referenced key, the delete
\* query builder resolves the relation to its join column alone, so the
\* statement is DELETE FROM message WHERE id = $1 AND "chatId" = $2; the
\* nested user criterion is not part of it.
ScopedDeleteMatches(messageId, chatId, userId) ==
  {r \in Rows(messages) : r.id = messageId /\ r.chat = chatId}

UserRow(id, b) ==
  [id |-> id, firstName |-> b.firstName.s, lastName |-> b.lastName.s,
   age |-> IntValue(b.age)]

ChatRow(id, b, userId) == [id |-> id, title |-> b.title.s, user |-> userId]

\* Faulty variant of MessageRow: question and answer exchanged.
MessageRowSwapped(id, b, chatId) ==
  [id |-> id, question |-> b.answer.s, answer |-> b.question.s, chat |-> chatId]

MessageRow(id, b, chatId) ==
  [id |-> id, question |-> b.question.s, answer |-> b.answer.s, chat |-> chatId]

(***************************************************************************)
(* Requests and responses.                                                 *)
(***************************************************************************)
\* A response: the request (route, path parameters u, c, m, body), the
\* status, the payload (data: the entity or the list; msgs: the messages of
\* a chat fetched with its relation; errors: the violations of a 400) and
\* the number of store statements the handler issued.
Resp(route, u, c, m, b, status, data, msgs, errors, queries) ==
  [route |-> route, u |-> u, c |-> c, m |-> m, body |-> b, status |-> status,
   data |-> data, msgs |-> msgs, errors |-> errors, queries |-> queries]

NoResp == Resp("none", 0, 0, 0, NoBody, 0, <<>>, <<>>, <<>>, 0)

\* A create handler between its parent lookup and its save.
Idle == [pc |-> "idle", route |-> "none", u |-> 0, c |-> 0, body |-> NoBody,
         parent |-> 0]

\* The server after AppDataSource.initialize(), with the responses of the
\* routes in `routes` recorded.
Start(routes) ==
  /\ observed = routes
  /\ users = <<>>
  /\ chats = <<>>
  /\ messages = <<>>
  /\ userSeq = 0
  /\ chatSeq = 0
  /\ msgSeq = 0
  /\ pending = [k \in Clients |-> Idle]
  /\ last = NoResp

\* The response of a handler.
Answer(r) ==
  /\ last' = (IF r.route \in observed THEN r ELSE NoResp)
  /\ observed' = observed

\* Creates whose save is still to come.
PendingSaves == Cardinality({k \in Clients : pending[k].pc # "idle"})

\* The model lets a create start only while the id it will draw is within
\* the bound.
Room == userSeq + chatSeq + msgSeq + PendingSaves < MaxRows

Read(r) ==
  /\ Answer(r)
  /\ UNCHANGED <<users, chats, messages, userSeq, chatSeq, msgSeq, pending>>

(***************************************************************************)
(* User routes.                                                            *)
(***************************************************************************)
\* app.get("/users")
GetUsers == Read(Resp("GET /users", 0, 0, 0, NoBody, 200, users, <<>>, <<>>, 1))

\* app.get("/users/:id")
GetUser(id) ==
  LET user == FindUserById(id)
  IN  Read(Resp("GET /users/:id", id, 0, 0, NoBody,
                IF user = <<>> THEN 404 ELSE 200, user, <<>>, <<>>, 1))

\* app.post("/users")
PostUsers(b) ==
  LET errors == ValidateUser(b)
  IN  IF errors # <<>>
      THEN Read(Resp("POST /users", 0, 0, 0, b, 400, <<>>, <<>>, errors, 0))
      ELSE /\ Room
           /\ userSeq' = userSeq + 1
           /\ users' = Append(users, UserRow(userSeq + 1, b))
           /\ Answer(Resp("POST /users", 0, 0, 0, b, 201,
                           <<UserRow(userSeq + 1, b)>>, <<>>, <<>>, 1))
           /\ UNCHANGED <<chats, messages, chatSeq, msgSeq, pending>>

\* Faulty variant of DeleteUser: the delete cascades to the user's chats.
DeleteUserCascade(id) ==
  /\ users' = Without(users, {id})
  /\ chats' = SelectSeq(chats, LAMBDA r : r.user # id)
  /\ Answer(Resp("DELETE /users/:id", id, 0, 0, NoBody,
                  IF id \in Ids(users) THEN 204 ELSE 404, <<>>, <<>>, <<>>, 1))
  /\ UNCHANGED <<messages, userSeq, chatSeq, msgSeq, pending>>

\* app.delete("/users/:id"): one DELETE on user; the store refuses it while
\* a chat refers to the user (the catch branch answers 500).
DeleteUser(id) ==
  LET status == IF id \notin Ids(users) THEN 404
                ELSE IF UserReferenced(id) THEN 500 ELSE 204
  IN  /\ users' = IF status = 204 THEN Without(users, {id}) ELSE users
      /\ Answer(Resp("DELETE /users/:id", id, 0, 0, NoBody, status,
                      <<>>, <<>>, <<>>, 1))
      /\ UNCHANGED <<chats, messages, userSeq, chatSeq, msgSeq, pending>>

(***************************************************************************)
(* Create handlers: the parent lookup, then the save.                      *)
(***************************************************************************)
Respond(r) ==
  /\ Answer(r)
  /\ UNCHANGED <<users, chats, messages, userSeq, chatSeq, msgSeq, pending>>

Hold(k, pc, route, u, c, b, parent) ==
  /\ pending' = [pending EXCEPT ![k] =
        [pc |-> pc, route |-> route, u |-> u, c |-> c, body |-> b,
         parent |-> parent]]
  /\ UNCHANGED <<users, chats, messages, userSeq, chatSeq, msgSeq, last, observed>>

\* app.post("/chats"): validation, then findOneBy({ id: userId }) on users.
PostChats(k, b) ==
  LET errors == ValidateChat(b)
      user == FindUserById(IntValue(b.userId))
  IN  /\ pending[k].pc = "idle"
      /\ IF errors # <<>>
         THEN Respond(Resp("POST /chats", 0, 0, 0, b, 400, <<>>, <<>>, errors, 0))
         ELSE IF user = <<>>
         THEN Respond(Resp("POST /chats", 0, 0, 0, b, 404, <<>>, <<>>, <<>>, 1))
         ELSE /\ Room
              /\ Hold(k, "saveChat", "POST /chats", 0, 0, b, user[1].id)

\* Faulty variant of PostUserChats: the user lookup is missing.
PostUserChatsNoLookup(k, u, b) ==
  LET errors == ValidateUserChat(b)
  IN  /\ pending[k].pc = "idle"
      /\ IF errors # <<>>
         THEN Respond(Resp("POST /users/:userId/chats", u, 0, 0, b, 400,
                           <<>>, <<>>, errors, 0))
         ELSE /\ Room
              /\ Hold(k, "saveChat", "POST /users/:userId/chats", u, 0, b, u)

\* app.post("/users/:userId/chats"): validation, then the user lookup.
PostUserChats(k, u, b) ==
  LET errors == ValidateUserChat(b)
      user == FindUserById(u)
  IN  /\ pending[k].pc = "idle"
      /\ IF errors # <<>>
         THEN Respond(Resp("POST /users/:userId/chats", u, 0, 0, b, 400,
                           <<>>, <<>>, errors, 0))
         ELSE IF user = <<>>
         THEN Respond(Resp("POST /users/:userId/chats", u, 0, 0, b, 404,
                           <<>>, <<>>, <<>>, 1))
         ELSE /\ Room
              /\ Hold(k, "saveChat", "POST /users/:userId/chats", u, 0, b,
                      user[1].id)

\* getRepository(Chat).save(chat) of both chat create handlers: the insert
\* draws the next id, and the store refuses a row whose user is gone (the
\* catch branch answers 500).
SaveChat(k) ==
  LET p == pending[k]
      row == ChatRow(chatSeq + 1, p.body, p.parent)
      ok == ChatUserFK(p.parent)
  IN  /\ p.pc = "saveChat"
      /\ chatSeq' = chatSeq + 1
      /\ chats' = IF ok THEN Append(chats, row) ELSE chats
      /\ pending' = [pending EXCEPT ![k] = Idle]
      /\ Answer(Resp(p.route, p.u, 0, 0, p.body, IF ok THEN 201 ELSE 500,
                      IF ok THEN <<row>> ELSE <<>>, <<>>, <<>>, 2))
      /\ UNCHANGED <<users, messages, userSeq, msgSeq>>

\* app.post("/chats/:chatId/messages"): validation, then findOneBy({ id }).
PostChatMessages(k, c, b) ==
  LET errors == ValidateMessage(b)
      chat == FindChatById(c)
  IN  /\ pending[k].pc = "idle"
      /\ IF errors # <<>>
         THEN Respond(Resp("POST /chats/:chatId/messages", 0, c, 0, b, 400,
                           <<>>, <<>>, errors, 0))
         ELSE IF chat = <<>>
         THEN Respond(Resp("POST /chats/:chatId/messages", 0, c, 0, b, 404,
                           <<>>, <<>>, <<>>, 1))
         ELSE /\ Room
              /\ Hold(k, "saveMessage", "POST /chats/:chatId/messages", 0, c,
                      b, chat[1].id)

\* app.post("/users/:userId/chats/:chatId/messages"): validation, then
\* findOne({ where: { id: chatId, user: { id: userId } } }).
PostUserChatMessages(k, u, c, b) ==
  LET errors == ValidateMessage(b)
      chat == FindChatOfUser(chats, c, u)
  IN  /\ pending[k].pc = "idle"
      /\ IF errors # <<>>
         THEN Respond(Resp("POST /users/:userId/chats/:chatId/messages", u, c,
                           0, b, 400, <<>>, <<>>, errors, 0))
         ELSE IF chat = <<>>
         THEN Respond(Resp("POST /users/:userId/chats/:chatId/messages", u, c,
                           0, b, 404, <<>>, <<>>, <<>>, 1))
         ELSE /\ Room
              /\ Hold(k, "saveMessage",
                      "POST /users/:userId/chats/:chatId/messages", u, c, b,
                      chat[1].id)

\* getRepository(Message).save(message) of both message create handlers.
SaveMessage(k) ==
  LET p == pending[k]
      row == MessageRow(msgSeq + 1, p.body, p.parent)
      ok == MessageChatFK(p.parent)
  IN  /\ p.pc = "saveMessage"
      /\ msgSeq' = msgSeq + 1
      /\ messages' = IF ok THEN Append(messages, row) ELSE messages
      /\ pending' = [pending EXCEPT ![k] = Idle]
      /\ Answer(Resp(p.route, p.u, p.c, 0, p.body, IF ok THEN 201 ELSE 500,
                      IF ok THEN <<row>> ELSE <<>>, <<>>, <<>>, 2))
      /\ UNCHANGED <<users, chats, userSeq, chatSeq>>

(***************************************************************************)
(* Chat and message routes.                                                *)
(***************************************************************************)
\* app.get("/chats")
GetChats == Read(Resp("GET /chats", 0, 0, 0, NoBody, 200, chats, <<>>, <<>>, 1))

\* app.get("/chats/:id"): the chat with relations: ["messages"].
GetChat(c) ==
  LET chat == FindChatById(c)
  IN  Read(Resp("GET /chats/:id", 0, c, 0, NoBody,
                IF chat = <<>> THEN 404 ELSE 200, chat,
                IF chat = <<>> THEN <<>> ELSE MessagesOfChat(messages, c),
                <<>>, 1))

\* app.delete("/chats/:id"): one DELETE on chat, nothing on message.
DeleteChat(c) ==
  LET status == IF c \notin Ids(chats) THEN 404
                ELSE IF ChatReferenced(c) THEN 500 ELSE 204
  IN  /\ chats' = IF status = 204 THEN Without(chats, {c}) ELSE chats
      /\ Answer(Resp("DELETE /chats/:id", 0, c, 0, NoBody, status,
                      <<>>, <<>>, <<>>, 1))
      /\ UNCHANGED <<users, messages, userSeq, chatSeq, msgSeq, pending>>

\* app.get("/chats/:chatId/messages"): 404 on an empty result.
GetChatMessages(c) ==
  LET found == MessagesOfChat(messages, c)
  IN  Read(Resp("GET /chats/:chatId/messages", 0, c, 0, NoBody,
                IF Len(found) = 0 THEN 404 ELSE 200, found, <<>>, <<>>, 1))

\* Faulty variant of DeleteMessage: the affected count is not looked at.
DeleteMessageAlways204(m) ==
  /\ messages' = Without(messages, {m})
  /\ Answer(Resp("DELETE /messages/:id", 0, 0, m, NoBody, 204,
                  <<>>, <<>>, <<>>, 1))
  /\ UNCHANGED <<users, chats, userSeq, chatSeq, msgSeq, pending>>

\* app.delete("/messages/:id")
DeleteMessage(m) ==
  /\ messages' = Without(messages, {m})
  /\ Answer(Resp("DELETE /messages/:id", 0, 0, m, NoBody,
                  IF m \in Ids(messages) THEN 204 ELSE 404, <<>>, <<>>, <<>>, 1))
  /\ UNCHANGED <<users, chats, userSeq, chatSeq, msgSeq, pending>>

(***************************************************************************)
(* User-scoped routes.                                                     *)
(***************************************************************************)
\* The response of app.get("/users/:userId/chats/:chatId/messages") over
\* given tables: the chat of that user with its messages relation.
UserChatMessagesResp(chatTable, msgTable, u, c) ==
  LET chat == FindChatOfUser(chatTable, c, u)
  IN  Resp("GET /users/:userId/chats/:chatId/messages", u, c, 0, NoBody,
           IF chat = <<>> THEN 404 ELSE 200,
           IF chat = <<>> THEN <<>> ELSE MessagesOfChat(msgTable, c),
           <<>>, <<>>, 1)

\* app.get("/users/:userId/chats/:chatId/messages")
GetUserChatMessages(u, c) == Read(UserChatMessagesResp(chats, messages, u, c))

\* app.delete("/users/:userId/chats/:chatId/messages/:messageId")
DeleteUserChatMessage(u, c, m) ==
  LET gone == {r.id : r \in ScopedDeleteMatches(m, c, u)}
  IN  /\ messages' = Without(messages, gone)
      /\ Answer(Resp("DELETE /users/:userId/chats/:chatId/messages/:messageId",
                      u, c, m, NoBody, IF gone = {} THEN 404 ELSE 204,
                      <<>>, <<>>, <<>>, 1))
      /\ UNCHANGED <<users, chats, userSeq, chatSeq, msgSeq, pending>>

\* Faulty variant of GetUserChats: 404 decided by a lookup of the user.
GetUserChatsByUser(u) ==
  Read(Resp("GET /users/:userId/chats", u, 0, 0, NoBody,
            IF FindUserById(u) = <<>> THEN 404 ELSE 200,
            IF FindUserById(u) = <<>> THEN <<>> ELSE ChatsOfUser(u),
            <<>>, <<>>, 1))

\* app.get("/users/:userId/chats"): 404 on an empty result, no user lookup.
GetUserChats(u) ==
  LET found == ChatsOfUser(u)
  IN  Read(Resp("GET /users/:userId/chats", u, 0, 0, NoBody,
                IF Len(found) = 0 THEN 404 ELSE 200, found, <<>>, <<>>, 1))

\* app.get("/users/:userId/chats/:chatId"): the chat of that user with
\* relations: ["messages"].
GetUserChat(u, c) ==
  LET chat == FindChatOfUser(chats, c, u)
  IN  Read(Resp("GET /users/:userId/chats/:chatId", u, c, 0, NoBody,
                IF chat = <<>> THEN 404 ELSE 200, chat,
                IF chat = <<>> THEN <<>> ELSE MessagesOfChat(messages, c),
                <<>>, 1))

\* The handlers that read: they change nothing but `last`.
Reads ==
  \/ GetUsers
  \/ \E id \in UserIds : GetUser(id)
  \/ GetChats
  \/ \E c \in ChatIds : GetChat(c)
  \/ \E c \in ChatIds : GetChatMessages(c)
  \/ \E u \in UserIds, c \in ChatIds : GetUserChatMessages(u, c)
  \/ \E u \in UserIds : GetUserChats(u)
  \/ \E u \in UserIds, c \in ChatIds : GetUserChat(u, c)

\* The handlers that write, with the saves of the create handlers.
Writes ==
  \/ \E b \in UserBodies : PostUsers(b)
  \/ \E id \in UserIds : DeleteUser(id)
  \/ \E k \in Clients, b \in ChatBodies : PostChats(k, b)
  \/ \E k \in Clients, u \in UserIds, b \in UserChatBodies : PostUserChats(k, u, b)
  \/ \E k \in Clients : SaveChat(k)
  \/ \E c \in ChatIds : DeleteChat(c)
  \/ \E k \in Clients, c \in ChatIds, b \in MessageBodies : PostChatMessages(k, c, b)
  \/ \E k \in Clients, u \in UserIds, c \in ChatIds, b \in MessageBodies :
       PostUserChatMessages(k, u, c, b)
  \/ \E k \in Clients : SaveMessage(k)
  \/ \E m \in MsgIds : DeleteMessage(m)
  \/ \E u \in UserIds, c \in ChatIds, m \in MsgIds : DeleteUserChatMessage(u, c, m)

Next == Reads \/ Writes

GetRoutes ==
  {"GET /users", "GET /users/:id", "GET /chats", "GET /chats/:id",
   "GET /chats/:chatId/messages", "GET /users/:userId/chats",
   "GET /users/:userId/chats/:chatId",
   "GET /users/:userId/chats/:chatId/messages"}

PostRoutes ==
  {"POST /users", "POST /chats", "POST /users/:userId/chats",
   "POST /chats/:chatId/messages",
   "POST /users/:userId/chats/:chatId/messages"}

DeleteRoutes ==
  {"DELETE /users/:id", "DELETE /chats/:id", "DELETE /messages/:id",
   "DELETE /users/:userId/chats/:chatId/messages/:messageId"}

ScopedRoutes ==
  {"GET /users/:userId/chats/:chatId",
   "GET /users/:userId/chats/:chatId/messages",
   "POST /users/:userId/chats/:chatId/messages",
   "DELETE /users/:userId/chats/:chatId/messages/:messageId"}

Init == Start(GetRoutes \cup PostRoutes \cup DeleteRoutes)

\* The server, with every response recorded.
Spec == Init /\ [][Next]_vars

ChatCreateRoutes == {"POST /chats", "POST /users/:userId/chats"}

MessageCreateRoutes ==
  {"POST /chats/:chatId/messages", "POST /users/:userId/chats/:chatId/messages"}

\* The same server, with the responses of one group of routes recorded.
\* With no read recorded a read is a step that changes nothing, so this
\* specification takes the writing handlers alone.
SpecPosts == Start(PostRoutes) /\ [][Writes]_vars

SpecChatCreates == Start(ChatCreateRoutes) /\ [][Next]_vars

SpecScopedPost ==
  Start({"POST /users/:userId/chats/:chatId/messages"}) /\ [][Next]_vars

SpecDeletes == Start(DeleteRoutes) /\ [][Next]_vars

SpecUserDelete == Start({"DELETE /users/:id"}) /\ [][Next]_vars

SpecParentDeletes ==
  Start({"DELETE /users/:id", "DELETE /chats/:id"}) /\ [][Next]_vars

SpecScoped == Start(ScopedRoutes) /\ [][Next]_vars

SpecLists ==
  Start({"GET /users/:userId/chats", "GET /chats/:chatId/messages"})
    /\ [][Next]_vars

(***************************************************************************)
(* Properties.                                                             *)
(***************************************************************************)
\* This step is the response of a handler of `route`.
Responded(route) == last'.route = route /\ last' # last

\* This step is the response of a handler of one of `routes`.
RespondedOn(routes) == last'.route \in routes /\ last' # last

\* This step is a response given at the request's first step (validation or
\* parent lookup), not by a save.
RespondedAtOnce(routes) == RespondedOn(routes) /\ pending' = pending

\* This step is a create handler passing its lookup and going on to save.
Proceeds(k) == pending[k].pc = "idle" /\ pending'[k].pc # "idle"

SeqsUnchanged == UNCHANGED <<userSeq, chatSeq, msgSeq>>

StoreUnchanged == UNCHANGED <<users, chats, messages>>

\* The user a chat create request names: the path parameter or body.userId.
NamedUser(route, u, b) ==
  IF route = "POST /chats" THEN IntValue(b.userId) ELSE u

\* The body rules of the routes, as the specification words them.
NonEmptyText(v) == v.t = "string" /\ v.s # ""

IntegerValued(v) ==
  \/ v.t = "number"
  \/ v.t = "string" /\ v.s \in {"-1", "0", "1", "2", "3"}

NonNegInteger(v) ==
  \/ v.t = "number" /\ v.n >= 0
  \/ v.t = "string" /\ v.s \in {"0", "1", "2", "3"}

ViolatesRules(route, b) ==
  CASE route = "POST /users" ->
         ~(NonEmptyText(b.firstName) /\ NonEmptyText(b.lastName)
             /\ NonNegInteger(b.age))
    [] route = "POST /chats" ->
         ~(IntegerValued(b.userId) /\ NonEmptyText(b.title))
    [] route = "POST /users/:userId/chats" -> ~NonEmptyText(b.title)
    [] route \in MessageCreateRoutes ->
         ~(NonEmptyText(b.question) /\ NonEmptyText(b.answer))
    [] OTHER -> FALSE

C2_ChatUnderAbsentUser404 ==
  [][/\ (/\ RespondedAtOnce(ChatCreateRoutes)
         /\ ~ViolatesRules(last'.route, last'.body)
         /\ NamedUser(last'.route, last'.u, last'.body) \notin Ids(users))
          => last'.status = 404 /\ StoreUnchanged /\ SeqsUnchanged
     /\ \A k \in Clients :
          (Proceeds(k) /\ pending'[k].route \in ChatCreateRoutes)
            => NamedUser(pending'[k].route, pending'[k].u, pending'[k].body)
                 \in Ids(users)]_vars

\* C2 witness: POST /users/:userId/chats answered 404 for a user id that is
\* not stored while another user is.
C2_Witness ==
  /\ last.route = "POST /users/:userId/chats"
  /\ last.status = 404
  /\ last.u \notin Ids(users)
  /\ users # <<>>

\* C3: when the scoped message POST responds 201, the scoped message list of
\* that chat read right after holds the created message exactly once, with
\* the id of the response and the submitted question and answer, and every
\* message of the list read right before.
C3_MessageRoundTrip ==
  [][(Responded("POST /users/:userId/chats/:chatId/messages")
        /\ last'.status = 201)
       => LET before == UserChatMessagesResp(chats, messages, last'.u, last'.c)
              after == UserChatMessagesResp(chats', messages', last'.u, last'.c)
              made == {i \in 1..Len(after.data) :
                         after.data[i].id = last'.data[1].id}
          IN  /\ after.status = 200
              /\ Cardinality(made) = 1
              /\ \A i \in made :
                   /\ after.data[i].question = last'.body.question.s
                   /\ after.data[i].answer = last'.body.answer.s
              /\ \A j \in 1..Len(before.data) :
                   \E i \in 1..Len(after.data) : after.data[i] = before.data[j]]_vars

\* C3 witness: the scoped POST responded 201 for a chat that already had a
\* message.
C3_Witness ==
  /\ last.route = "POST /users/:userId/chats/:chatId/messages"
  /\ last.status = 201
  /\ Len(MessagesOfChat(messages, last.c)) >= 2

\* The table and the id a delete route addresses.
DeleteTable(route, us, cs, ms) ==
  CASE route = "DELETE /users/:id" -> us
    [] route = "DELETE /chats/:id" -> cs
    [] OTHER -> ms

DeleteId(route, r) ==
  CASE route = "DELETE /users/:id" -> r.u
    [] route = "DELETE /chats/:id" -> r.c
    [] OTHER -> r.m

C5_ValidationFirst ==
  [][/\ (RespondedAtOnce(PostRoutes) /\ ViolatesRules(last'.route, last'.body))
          => /\ last'.status = 400
             /\ last'.errors # <<>>
             /\ last'.queries = 0
             /\ StoreUnchanged /\ SeqsUnchanged
     /\ (RespondedOn(PostRoutes) /\ last'.status # 400)
          => ~ViolatesRules(last'.route, last'.body)
     /\ \A k \in Clients :
          Proceeds(k) => ~ViolatesRules(pending'[k].route, pending'[k].body)]_vars

\* C5 witness: an invalid title under a user id that is not stored was
\* answered 400.
C5_Witness ==
  /\ last.route = "POST /users/:userId/chats"
  /\ last.status = 400
  /\ last.errors # <<>>
  /\ last.u \notin Ids(users)

\* C6: for distinct stored users u and v and a chat c owned by v, every
\* request on a /users/u/chats/c... route is refused (404, or 400 for a
\* body that breaks the rules), returns no data, and neither creates nor
\* deletes a message of c; the scoped DELETE of message m responds 204 only
\* when m belongs to c and c belongs to u.
C6_UserScoping ==
  [][/\ (/\ RespondedOn(ScopedRoutes)
         /\ last'.u \in Ids(users)
         /\ \E i \in 1..Len(chats) :
              chats[i].id = last'.c /\ chats[i].user # last'.u)
          => /\ last'.status \in {400, 404}
             /\ last'.data = <<>>
             /\ last'.msgs = <<>>
             /\ messages' = messages
     /\ (/\ Responded("DELETE /users/:userId/chats/:chatId/messages/:messageId")
         /\ last'.u \in Ids(users)
         /\ last'.status = 204)
          => /\ \E i \in 1..Len(messages) :
                  messages[i].id = last'.m /\ messages[i].chat = last'.c
             /\ \E i \in 1..Len(chats) :
                  chats[i].id = last'.c /\ chats[i].user = last'.u]_vars

\* C7: a chat row is inserted only while its user is stored and a message
\* row only while its chat is stored, whatever ran between the create
\* handler's lookup and its save.
C7_ParentStoredAtInsert ==
  [][/\ \A i \in 1..Len(chats') :
          chats'[i].id \notin Ids(chats) => chats'[i].user \in Ids(users)
     /\ \A i \in 1..Len(messages') :
          messages'[i].id \notin Ids(messages)
            => messages'[i].chat \in Ids(chats)]_vars

\* C7 witness: chats have been inserted, and a chat create whose user was
\* deleted between its lookup and its save was answered by the catch branch.
C7_Witness ==
  /\ last.route \in ChatCreateRoutes
  /\ last.status = 500
  /\ last.queries = 2
  /\ chats # <<>>

\* C8: DELETE /users/:id, whatever it responds, leaves chats and messages as
\* they were and changes no user row other than the one with that id.
C8_NoUserCascade ==
  [][Responded("DELETE /users/:id")
       => /\ chats' = chats
          /\ messages' = messages
          /\ Without(users', {last'.u}) = Without(users, {last'.u})
          /\ Rows(users') \subseteq Rows(users)]_vars

\* C8 witness: a user was deleted while chats and messages are stored.
C8_Witness ==
  /\ last.route = "DELETE /users/:id"
  /\ last.status = 204
  /\ chats # <<>>
  /\ messages # <<>>

\* C9 as claimed: GET /users/:userId/chats responds 404 only when the user is
\* not stored, and 200 with exactly that user's chats for every stored user,
\* also one owning no chat; the same for GET /chats/:chatId/messages and the
\* parent chat.
C9_ListReads404OnlyOnAbsentParent ==
  [][/\ Responded("GET /users/:userId/chats")
          => /\ last'.status = 404 <=> last'.u \notin Ids(users)
             /\ last'.u \in Ids(users)
                  => /\ last'.status = 200
                     /\ last'.data = SelectSeq(chats, LAMBDA r : r.user = last'.u)
     /\ Responded("GET /chats/:chatId/messages")
          => /\ last'.status = 404 <=> last'.c \notin Ids(chats)
             /\ last'.c \in Ids(chats)
                  => /\ last'.status = 200
                     /\ last'.data =
                          SelectSeq(messages, LAMBDA r : r.chat = last'.c)]_vars

\* C9 amended: GET /users/:userId/chats responds 404 exactly when no stored
\* chat is owned by userId (the user stored or not), and otherwise 200 with
\* exactly the chats owned by that user; GET /chats/:chatId/messages responds
\* 404 exactly when no stored message belongs to chatId, and otherwise 200
\* with exactly the messages of that chat.
C9_ListReads404OnEmptyList ==
  [][/\ Responded("GET /users/:userId/chats")
          => LET owned == SelectSeq(chats, LAMBDA r : r.user = last'.u)
             IN  /\ last'.status = 404 <=> owned = <<>>
                 /\ last'.status \in {200, 404}
                 /\ last'.status = 200 => last'.data = owned
     /\ Responded("GET /chats/:chatId/messages")
          => LET owned == SelectSeq(messages, LAMBDA r : r.chat = last'.c)
             IN  /\ last'.status = 404 <=> owned = <<>>
                 /\ last'.status \in {200, 404}
                 /\ last'.status = 200 => last'.data = owned]_vars

\* C9 witness: the chat list of a stored user who owns no chat was answered
\* 404.
C9_Witness ==
  /\ last.route = "GET /users/:userId/chats"
  /\ last.status = 404
  /\ last.u \in Ids(users)

NoDangling(us, cs, ms) ==
  /\ \A i \in 1..Len(cs) : cs[i].user \in Ids(us)
  /\ \A i \in 1..Len(ms) : ms[i].chat \in Ids(cs)

\* C10: in every reachable state every stored chat references a stored user
\* and every stored message a stored chat; a DELETE of a user that owns a
\* chat, or of a chat that has a message, responds 500 and leaves the store
\* as it was.
C10_NoDanglingReferences ==
  [][/\ NoDangling(users', chats', messages')
     /\ (/\ Responded("DELETE /users/:id")
         /\ \E i \in 1..Len(chats) : chats[i].user = last'.u)
          => last'.status = 500 /\ StoreUnchanged
     /\ (/\ Responded("DELETE /chats/:id")
         /\ \E i \in 1..Len(messages) : messages[i].chat = last'.c)
          => last'.status = 500 /\ StoreUnchanged]_vars

\* C10 witness: the delete of a user who owns a chat was refused.
C10_Witness ==
  /\ last.route = "DELETE /users/:id"
  /\ last.status = 500
  /\ \E i \in 1..Len(chats) : chats[i].user = last.u

====
